---- MODULE Spec2Model ----
(***************************************************************************)
(* Avii Pro backend: chat sessions and messages in a relational store, a   *)
(* per-user document index, and the run_agent query-routing flow           *)
(* (src/main.py, src/engine.py, src/database.py).                          *)
(***************************************************************************)
EXTENDS Integers, Sequences, FiniteSets

(* ------------------------------------------------------------------ *)
(* Bounds of the model                                                  *)
(* ------------------------------------------------------------------ *)
MaxMsgs == 4
MaxChunks == 4
MaxTextLen == 2401

(* ------------------------------------------------------------------ *)
(* Program constants                                                    *)
(* ------------------------------------------------------------------ *)
CHUNK_SIZE == 1000
CHUNK_STRIDE == 800
N_RESULTS == 5
WEB_MAX_RESULTS == 3
WEB_CONTENT_CUT == 400

(* two registered users and two session ids the frontend may send *)
UserIds == {1, 2}
SessionIds == {1, 2}
ChunkIds == 1..MaxChunks
Filenames == {"a.pdf"}

(* ------------------------------------------------------------------ *)
(* Strings as sequences of one-character strings: str.lower(),          *)
(* str.upper(), str.strip(), str(int)                                   *)
(* ------------------------------------------------------------------ *)
UpperChars == <<"A","B","C","D","E","F","G","H","I","J","K","L","M",
                "N","O","P","Q","R","S","T","U","V","W","X","Y","Z">>
LowerChars == <<"a","b","c","d","e","f","g","h","i","j","k","l","m",
                "n","o","p","q","r","s","t","u","v","w","x","y","z">>
Whitespace == {" ", "\t", "\n", "\r"}

LowerChar(c) ==
    IF \E i \in 1..26 : UpperChars[i] = c
    THEN LowerChars[CHOOSE i \in 1..26 : UpperChars[i] = c]
    ELSE c

UpperChar(c) ==
    IF \E i \in 1..26 : LowerChars[i] = c
    THEN UpperChars[CHOOSE i \in 1..26 : LowerChars[i] = c]
    ELSE c

Lower(s) == [i \in 1..Len(s) |-> LowerChar(s[i])]

Upper(s) == [i \in 1..Len(s) |-> UpperChar(s[i])]

RECURSIVE LStrip(_)
LStrip(s) ==
    IF s # <<>> /\ Head(s) \in Whitespace THEN LStrip(Tail(s)) ELSE s

RECURSIVE RStrip(_)
RStrip(s) ==
    IF s # <<>> /\ s[Len(s)] \in Whitespace
    THEN RStrip(SubSeq(s, 1, Len(s) - 1))
    ELSE s

Strip(s) == RStrip(LStrip(s))

Digits == <<"0","1","2","3","4","5","6","7","8","9">>

RECURSIVE Str(_)
Str(n) ==
    IF n < 10 THEN <<Digits[n + 1]>>
    ELSE Str(n \div 10) \o <<Digits[(n % 10) + 1]>>

(* ------------------------------------------------------------------ *)
(* State                                                                *)
(* ------------------------------------------------------------------ *)
VARIABLES
    env,          \* process configuration fixed at import time
    users,        \* table users: set of user ids
    sessions,     \* table sessions: set of [id, user_id]
    messages,     \* table messages: rows [session_id, role, content] in id order
    chunks,       \* the document index: set of chunk records
    chat,         \* the in-flight /chat request
    reset,        \* the in-flight /reset-db request
    upload,       \* the last /upload-pdf request and its response
    reply         \* the last response of GET /history or DELETE /sessions

vars == <<env, users, sessions, messages, chunks, chat, reset, upload, reply>>

(* collection: engine.py builds the index handle only with COHERE_API_KEY; *)
(* tavily: only with TAVILY_API_KEY; fk_enforced: PostgreSQL enforces the   *)
(* foreign keys of database.py, SQLite (the default URL) does not.          *)
Envs == [collection : BOOLEAN, tavily : BOOLEAN, fk_enforced : BOOLEAN]

(* ------------------------------------------------------------------ *)
(* Document ingestion                                                   *)
(* ------------------------------------------------------------------ *)
Min(a, b) == IF a < b THEN a ELSE b

(* range(start, stop, step) *)
RECURSIVE Range(_, _, _)
Range(start, stop, step) ==
    IF start >= stop THEN {} ELSE {start} \cup Range(start + step, stop, step)

(* Variant: the windows laid end to end, stride equal to the window size *)
ChunkStartsBySize(len) == Range(0, len, CHUNK_SIZE)

(* range(0, len(text), 800) *)
ChunkStarts(len) == Range(0, len, CHUNK_STRIDE)

(* text[i:i+1000] as the half-open range [lo, hi) of the text *)
ChunkRange(i, len) == [lo |-> i, hi |-> Min(i + CHUNK_SIZE, len)]

(* chunks = [text[i:i+1000] for i in range(0, len(text), 800)] *)
ChunkRanges(len) == {ChunkRange(i, len) : i \in ChunkStarts(len)}

(* uuid4 identifiers: fresh with respect to the ids stored in the index *)
NthFreeId(index, k) ==
    LET free == ChunkIds \ {c.id : c \in index}
    IN  CHOOSE x \in free : Cardinality({y \in free : y < x}) = k - 1

NoUpload == [user |-> 0, len |-> 0, blank |-> TRUE, failed |-> FALSE,
             ret |-> 0, added |-> {}]

(* parse_chunk_sync: the ranges that become chunks. blank: text.strip() is  *)
(* empty; failed: PdfReader, extract_text or collection.add raised.         *)
IngestRanges(len, blank, failed) ==
    IF ~env.collection THEN {}
    ELSE IF failed THEN {}
    ELSE IF blank THEN {}
    ELSE ChunkRanges(len)

(* metadatas = [{"user_id": str(user_id), "filename": filename} ...];       *)
(* `by` records the uploading user and is never read by the program         *)
IngestChunk(index, r, u, f) ==
    [id |-> NthFreeId(index, (r.lo \div CHUNK_STRIDE) + 1), user_id |-> Str(u),
     filename |-> f, by |-> u, lo |-> r.lo, hi |-> r.hi]

(* collection.add(documents=chunks, ids=ids, metadatas=metadatas) *)
CollectionAdd(index, ranges, u, f) ==
    index \cup {IngestChunk(index, r, u, f) : r \in ranges}

(* POST /upload-pdf: ingest_pdf and the chunks_indexed it answers *)
UploadPdf(u, f, len, blank, failed) ==
    /\ u \in users
    /\ len = 0 => blank
    /\ LET ranges == IngestRanges(len, blank, failed)
       IN  /\ Cardinality(chunks) + Cardinality(ranges) <= MaxChunks
           /\ chunks' = CollectionAdd(chunks, ranges, u, f)
           /\ upload' = [user |-> u, len |-> len, blank |-> blank,
                         failed |-> failed, ret |-> Cardinality(ranges),
                         added |-> ranges]
    /\ UNCHANGED <<env, users, sessions, messages, chat, reset, reply>>

(* ------------------------------------------------------------------ *)
(* Texts handed to the prompt: the joined documents of an index query   *)
(* or the formatted web results; "" and None are the empty text         *)
(* ------------------------------------------------------------------ *)
EmptyText == [docs |-> {}, web |-> <<>>]

RECURSIVE SumLen(_)
SumLen(S) ==
    IF S = {} THEN 0
    ELSE LET c == CHOOSE x \in S : TRUE
         IN  (c.hi - c.lo) + SumLen(S \ {c})

(* len("\n".join(results['documents'][0])) *)
JoinLen(S) == IF S = {} THEN 0 ELSE SumLen(S) + (Cardinality(S) - 1)

(* len(f"Source: {r['title']}\nContent: {r['content'][:400]}\n---\n") *)
WebEntryLen(r) == 8 + r.title + 10 + Min(r.content, WEB_CONTENT_CUT) + 5

RECURSIVE WebLen(_)
WebLen(rs) ==
    IF rs = <<>> THEN 0 ELSE WebEntryLen(Head(rs)) + WebLen(Tail(rs))

TextLen(t) == JoinLen(t.docs) + WebLen(t.web)

(* Python truthiness of a str or None *)
Truthy(t) == TextLen(t) > 0

(* ------------------------------------------------------------------ *)
(* engine.py: determine_intent                                          *)
(* ------------------------------------------------------------------ *)
WEB == <<"W","E","B">>
PDF == <<"P","D","F">>
CHAT == <<"C","H","A","T">>

IntentGreetings ==
    { <<"h","i">>, <<"h","e","l","l","o">>, <<"h","e","y">>, <<"s","u","p">>,
      <<"h","o","w"," ","a","r","e"," ","y","o","u">> }

AgentGreetings == { <<"h","i">>, <<"h","e","l","l","o">>, <<"h","e","y">> }

(* user_query.lower().strip() in ["hi", "hello", "hey", "sup", "how are you"] *)
QuickGreeting(q) == Strip(Lower(q)) \in IntentGreetings

(* query.lower().strip() in ["hi", "hello", "hey"] *)
IsGreeting(q) == Strip(Lower(q)) \in AgentGreetings

NoLLM == [raised |-> FALSE, content |-> <<>>]

(* Variant: determine_intent without its try/except, the request failure    *)
(* leaves run_agent as an exception                                          *)
DetermineIntentRaises(q, llm) ==
    IF QuickGreeting(q) THEN [raised |-> FALSE, value |-> CHAT]
    ELSE IF llm.raised THEN [raised |-> TRUE, value |-> CHAT]
    ELSE LET intent == Upper(Strip(llm.content))
         IN  [raised |-> FALSE,
              value |-> IF intent \in {WEB, PDF} THEN intent ELSE CHAT]

(* determine_intent: llm is the outcome of the classification request,    *)
(* read only when the quick check did not answer                          *)
DetermineIntent(q, llm) ==
    IF QuickGreeting(q) THEN [raised |-> FALSE, value |-> CHAT]
    ELSE IF llm.raised THEN [raised |-> FALSE, value |-> CHAT]
    ELSE LET intent == Upper(Strip(llm.content))
         IN  [raised |-> FALSE,
              value |-> IF intent \in {WEB, PDF} THEN intent ELSE CHAT]

(* ------------------------------------------------------------------ *)
(* engine.py: _search_pdf_sync and _search_web_sync                     *)
(* ------------------------------------------------------------------ *)
(* Variant: the query without its where filter *)
CollectionQueryUnfiltered(uid) ==
    {S \in SUBSET chunks : Cardinality(S) = Min(N_RESULTS, Cardinality(chunks))}

(* collection.query(n_results=5, where={"user_id": uid}): the possible   *)
(* result lists, the nearest n_results of the chunks the filter keeps    *)
CollectionQuery(uid) ==
    LET match == {c \in chunks : c.user_id = uid}
    IN  {S \in SUBSET match : Cardinality(S) = Min(N_RESULTS, Cardinality(match))}

(* _search_pdf_sync given the documents the query returned, or its raise *)
SearchPdf(raised, docs) ==
    IF ~env.collection THEN EmptyText
    ELSE IF raised THEN EmptyText
    ELSE IF Cardinality(docs) > 0 THEN [docs |-> docs, web |-> <<>>]
    ELSE EmptyText

(* _search_web_sync given the results tavily returned, or its raise *)
SearchWeb(raised, results) ==
    IF ~env.tavily THEN EmptyText
    ELSE IF raised THEN EmptyText
    ELSE [docs |-> {}, web |-> results]

(* ------------------------------------------------------------------ *)
(* The /chat request: chat_endpoint around run_agent                    *)
(* ------------------------------------------------------------------ *)
NoCalls == [intent |-> 0, pdf |-> 0, web |-> 0, complete |-> 0]

IdleChat ==
    [pc |-> "idle", user |-> 0, sid |-> 0, query |-> <<>>, use_web |-> FALSE,
     intent |-> <<>>, intent_call |-> "none", intent_raw |-> <<>>,
     pdf_call |-> "none",
     web_call |-> "none", pdf_data |-> EmptyText, web_data |-> EmptyText,
     context_data |-> EmptyText, source_label |-> "", complete_call |-> "none",
     response_text |-> <<>>, source_type |-> "", status |-> "",
     saved_user |-> 0, saved_model |-> 0, created |-> FALSE, calls |-> NoCalls]

ReplyText == <<"o","k">>
AgentErrorText == <<"I"," ","e","n","c","o","u","n","t","e","r","e","d">>
EngineErrorText == <<"I","'","m"," ","h","a","v","i","n","g">>

(* the request has returned: its locals are gone, what it stored and       *)
(* answered remains                                                        *)
Returned(c, status) ==
    [IdleChat EXCEPT !.pc = "done", !.user = c.user, !.sid = c.sid,
                     !.query = c.query, !.status = status,
                     !.saved_user = c.saved_user, !.saved_model = c.saved_model,
                     !.created = c.created]

(* Variant: the web condition without "not context_data" *)
WebCondIgnoresContext(c) ==
    /\ c.use_web
    /\ c.intent \in {WEB, PDF}

(* if not context_data and use_web and (intent == "WEB" or intent == "PDF") *)
WebCond(c) ==
    /\ ~Truthy(c.context_data)
    /\ c.use_web
    /\ c.intent \in {WEB, PDF}

(* if intent == "PDF" or (intent == "CHAT" and collection) *)
PdfCond(c) == c.intent = PDF \/ (c.intent = CHAT /\ env.collection)

(* where run_agent goes after determine_intent *)
AfterIntent(c) ==
    IF IsGreeting(c.query) THEN "complete"
    ELSE IF PdfCond(c) THEN "pdf"
    ELSE IF WebCond(c) THEN "web"
    ELSE "complete"

(* Variant: no web search after a document search *)
AfterPdfNoWeb(c) == "complete"

(* where run_agent goes after the document search *)
AfterPdf(c) == IF WebCond(c) THEN "web" ELSE "complete"

(* Variant: the lookup by id alone, without the owner filter *)
OwnedSessionAnyUser(sid, u) == \E s \in sessions : s.id = sid

(* session lookup by id and owner, main.py 182-185 *)
OwnedSession(sid, u) == \E s \in sessions : s.id = sid /\ s.user_id = u

(* primary key of sessions *)
SessionExists(sid) == \E s \in sessions : s.id = sid

(* chat_endpoint starts: get_current_user, then the session lookup *)
ChatLookup(u, sid, q, w) ==
    /\ chat.pc \in {"idle", "done"}
    /\ u \in users
    /\ Len(messages) + 2 <= MaxMsgs
    /\ chat' = [IdleChat EXCEPT !.user = u, !.sid = sid, !.query = q,
                                !.use_web = w,
                                !.pc = IF OwnedSession(sid, u) THEN "save_user"
                                       ELSE "create"]
    /\ UNCHANGED <<env, users, sessions, messages, chunks, reset, upload, reply>>

(* db.add(session); db.commit(): the primary key rejects a taken id and   *)
(* the IntegrityError ends the request                                     *)
ChatCreateSession ==
    /\ chat.pc = "create"
    /\ IF SessionExists(chat.sid)
       THEN /\ chat' = Returned(chat, "error")
            /\ UNCHANGED sessions
       ELSE /\ sessions' = sessions \cup {[id |-> chat.sid, user_id |-> chat.user]}
            /\ chat' = [chat EXCEPT !.pc = "save_user", !.created = TRUE]
    /\ UNCHANGED <<env, users, messages, chunks, reset, upload, reply>>

(* INSERT INTO messages: the foreign key, where enforced, rejects a row   *)
(* whose session is gone                                                   *)
InsertRejected(sid) == env.fk_enforced /\ ~SessionExists(sid)

ChatMessage(sid, role, content) ==
    [session_id |-> sid, role |-> role, content |-> content]

(* db.add(ChatMessage(role="user", content=req.query)); db.commit() *)
ChatSaveUser ==
    /\ chat.pc = "save_user"
    /\ IF InsertRejected(chat.sid)
       THEN /\ chat' = Returned(chat, "error")
            /\ UNCHANGED messages
       ELSE /\ messages' = Append(messages, ChatMessage(chat.sid, "user", chat.query))
            /\ chat' = [chat EXCEPT !.pc = "intent", !.saved_user = @ + 1]
    /\ UNCHANGED <<env, users, sessions, chunks, reset, upload, reply>>

(* run_agent, line 130: intent = await determine_intent(query). A raise   *)
(* out of run_agent lands in chat_endpoint's except, main.py 209-212      *)
AgentIntent(llm) ==
    /\ chat.pc = "intent"
    /\ IF QuickGreeting(chat.query) THEN llm = NoLLM ELSE TRUE
    /\ LET r == DetermineIntent(chat.query, llm)
           called == ~QuickGreeting(chat.query)
           c1 == [chat EXCEPT
                    !.intent = r.value,
                    !.intent_raw = llm.content,
                    !.intent_call = IF ~called THEN "none"
                                    ELSE IF llm.raised THEN "raised" ELSE "ok",
                    !.calls.intent = IF called THEN @ + 1 ELSE @,
                    !.source_label = "General Knowledge"]
       IN  chat' = IF r.raised
                   THEN [c1 EXCEPT !.pc = "save_model",
                                   !.response_text = EngineErrorText,
                                   !.source_type = "Error"]
                   ELSE [c1 EXCEPT !.pc = AfterIntent(c1)]
    /\ UNCHANGED <<env, users, sessions, messages, chunks, reset, upload, reply>>

(* run_agent, lines 139-142 *)
AgentPdf(raised, docs) ==
    /\ chat.pc = "pdf"
    /\ IF env.collection /\ ~raised
       THEN docs \in CollectionQuery(Str(chat.user))
       ELSE docs = {}
    /\ env.collection \/ ~raised
    /\ LET pdf_data == SearchPdf(raised, docs)
           c1 == [chat EXCEPT
                    !.pdf_data = pdf_data,
                    !.pdf_call = IF ~env.collection THEN "skipped"
                                 ELSE IF raised THEN "raised" ELSE "ok",
                    !.calls.pdf = IF env.collection THEN @ + 1 ELSE @,
                    !.context_data = IF Truthy(pdf_data) THEN pdf_data ELSE @,
                    !.source_label = IF Truthy(pdf_data) THEN "Uploaded Document"
                                     ELSE @]
       IN  chat' = [c1 EXCEPT !.pc = AfterPdf(c1)]
    /\ UNCHANGED <<env, users, sessions, messages, chunks, reset, upload, reply>>

(* run_agent, lines 144-148 *)
AgentWeb(raised, results) ==
    /\ chat.pc = "web"
    /\ IF env.tavily /\ ~raised THEN Len(results) <= WEB_MAX_RESULTS
       ELSE results = <<>>
    /\ env.tavily \/ ~raised
    /\ LET web_data == SearchWeb(raised, results)
       IN  chat' = [chat EXCEPT
                    !.web_data = web_data,
                    !.web_call = IF ~env.tavily THEN "skipped"
                                 ELSE IF raised THEN "raised" ELSE "ok",
                    !.calls.web = IF env.tavily THEN @ + 1 ELSE @,
                    !.context_data = IF Truthy(web_data) THEN web_data ELSE @,
                    !.source_label = IF Truthy(web_data) THEN "Web Search" ELSE @,
                    !.pc = "complete"]
    /\ UNCHANGED <<env, users, sessions, messages, chunks, reset, upload, reply>>

(* Variant: a failed completion is issued again *)
AgentReturnRetry(c, raised) ==
    IF raised
    THEN [c EXCEPT !.complete_call = "raised", !.calls.complete = @ + 1,
                   !.pc = "complete"]
    ELSE [c EXCEPT !.response_text = ReplyText, !.source_type = c.source_label,
                   !.complete_call = "ok", !.calls.complete = @ + 1,
                   !.pc = "save_model"]

(* what run_agent returns after the completion call, lines 168-185 *)
AgentReturn(c, raised) ==
    IF raised
    THEN [c EXCEPT !.response_text = AgentErrorText, !.source_type = "Error",
                   !.complete_call = "raised", !.calls.complete = @ + 1,
                   !.pc = "save_model"]
    ELSE [c EXCEPT !.response_text = ReplyText, !.source_type = c.source_label,
                   !.complete_call = "ok", !.calls.complete = @ + 1,
                   !.pc = "save_model"]

AgentComplete(raised) ==
    /\ chat.pc = "complete"
    /\ chat' = AgentReturn(chat, raised)
    /\ UNCHANGED <<env, users, sessions, messages, chunks, reset, upload, reply>>

(* db.add(ChatMessage(role="model", content=response_text)); db.commit() *)
ChatSaveModel ==
    /\ chat.pc = "save_model"
    /\ IF InsertRejected(chat.sid)
       THEN /\ chat' = Returned(chat, "error")
            /\ UNCHANGED messages
       ELSE /\ messages' = Append(messages,
                                  ChatMessage(chat.sid, "model", chat.response_text))
            /\ chat' = Returned([chat EXCEPT !.saved_model = @ + 1], "ok")
    /\ UNCHANGED <<env, users, sessions, chunks, reset, upload, reply>>
(* ------------------------------------------------------------------ *)
(* Session deletion                                                     *)
(* ------------------------------------------------------------------ *)
RefersTo(msgs, sids) == \E i \in 1..Len(msgs) : msgs[i].session_id \in sids

Keep(msgs, sids) ==
    SelectSeq(msgs, LAMBDA m : m.session_id \notin sids)

(* db.delete(session): the unit of work follows ChatSession.messages,      *)
(* cascade="all, delete-orphan", and deletes the session's messages        *)
OrmDeleteMessages(msgs, sids) == Keep(msgs, sids)

(* Query.delete(synchronize_session=False): one DELETE FROM sessions; no   *)
(* relationship cascade runs and the foreign key declares no ON DELETE     *)
BulkDeleteMessages(msgs, sids) == msgs

NoReply == [op |-> "none", user |-> 0, sid |-> 0, status |-> 0, body |-> <<>>]

(* DELETE /sessions/{session_id}: 200 after the delete and its commit,     *)
(* HTTPException(404, "Not found") when the lookup by id and owner is empty *)
DeleteSession(u, sid) ==
    /\ u \in users
    /\ IF OwnedSession(sid, u)
       THEN /\ sessions' = {s \in sessions : s.id # sid}
            /\ messages' = OrmDeleteMessages(messages, {sid})
            /\ reply' = [op |-> "delete", user |-> u, sid |-> sid,
                         status |-> 200, body |-> <<>>]
       ELSE /\ UNCHANGED <<sessions, messages>>
            /\ reply' = [op |-> "delete", user |-> u, sid |-> sid,
                         status |-> 404, body |-> <<>>]
    /\ UNCHANGED <<env, users, chunks, chat, reset, upload>>

(* [{"role": m.role, "content": m.content} for m in msgs] *)
HistoryBody(msgs, sid) ==
    LET of_sid == SelectSeq(msgs, LAMBDA m : m.session_id = sid)
    IN  [i \in 1..Len(of_sid) |->
            [role |-> of_sid[i].role, content |-> of_sid[i].content]]

(* GET /history/{session_id}: the messages of the session in id order,      *)
(* HTTPException(404, "Session not found") when the lookup by id and owner  *)
(* is empty                                                                 *)
GetHistory(u, sid) ==
    /\ u \in users
    /\ reply' = IF OwnedSession(sid, u)
                THEN [op |-> "history", user |-> u, sid |-> sid,
                      status |-> 200, body |-> HistoryBody(messages, sid)]
                ELSE [op |-> "history", user |-> u, sid |-> sid,
                      status |-> 404, body |-> <<>>]
    /\ UNCHANGED <<env, users, sessions, messages, chunks, chat, reset, upload>>

(* ------------------------------------------------------------------ *)
(* POST /reset-db                                                       *)
(* ------------------------------------------------------------------ *)
IdleReset ==
    [pc |-> "idle", user |-> 0, status |-> "", memory |-> "none",
     deleted |-> 0, removed |-> {}]

(* Variant: reset_memory is awaited whether or not the deletion failed *)
ResetAfterDeleteAlways(failed) == "memory"

(* try: delete; commit; await reset_memory() / except: rollback; raise 500.  *)
(* deleted and removed of the request record what it deleted and whose       *)
(* chunks it removed; the program keeps neither                              *)
ResetAfterDelete(failed) == IF failed THEN "done" ELSE "memory"

(* main.py 259-260: the bulk delete of the caller's sessions and its commit. *)
(* db_ok: the statement or the commit did not fail for a reason of its own   *)
ResetDbSessions(u, db_ok) ==
    /\ reset.pc \in {"idle", "done"}
    /\ u \in users
    /\ LET mine == {s.id : s \in {t \in sessions : t.user_id = u}}
           failed == ~db_ok \/ (env.fk_enforced /\ RefersTo(messages, mine))
       IN  /\ sessions' = IF failed THEN sessions
                          ELSE {s \in sessions : s.user_id # u}
           /\ messages' = IF failed THEN messages
                          ELSE BulkDeleteMessages(messages, mine)
           /\ reset' = [IdleReset EXCEPT
                          !.pc = ResetAfterDelete(failed),
                          !.user = u,
                          !.status = IF failed THEN "error" ELSE "",
                          !.deleted = IF failed THEN 0 ELSE Cardinality(mine)]
    /\ UNCHANGED <<env, users, chunks, chat, upload, reply>>

(* Variant: the clear scoped to the caller's chunks *)
ClearAllOwn(idx_ok) ==
    IF ~env.collection THEN chunks
    ELSE IF ~idx_ok THEN chunks
    ELSE {c \in chunks : c.by # reset.user}

(* clear_all_sync: the index after it, idx_ok when get and delete did not raise *)
ClearAll(idx_ok) ==
    IF ~env.collection THEN chunks
    ELSE IF ~idx_ok THEN chunks
    ELSE {}

(* main.py 262-264: await ai_engine.reset_memory(), whose result is dropped *)
ResetDbMemory(idx_ok) ==
    /\ reset.pc = "memory"
    /\ env.collection \/ idx_ok
    /\ chunks' = ClearAll(idx_ok)
    /\ reset' = [reset EXCEPT
                   !.pc = "done",
                   !.status = "success",
                   !.removed = {c.by : c \in chunks \ ClearAll(idx_ok)},
                   !.memory = IF ~env.collection THEN "disabled"
                              ELSE IF ~idx_ok THEN "failed"
                              ELSE IF chunks = {} THEN "nothing"
                              ELSE "cleared"]
    /\ UNCHANGED <<env, users, sessions, messages, chat, upload, reply>>

(* ------------------------------------------------------------------ *)
(* Inputs                                                               *)
(* ------------------------------------------------------------------ *)
Q_hi == <<"h","i">>
Q_hey == <<" ","H","e","Y"," ">>
Q_hello == <<"H","E","L","L","O","\n">>
Q_sup == <<"S","u","p">>
Q_how == <<"h","o","w"," ","a","r","e"," ","y","o","u"," ">>
Q_news == <<"n","e","w","s","?">>
Q_hi_all == <<"h","i"," ","a","l","l">>

Queries == {Q_hi, Q_hey, Q_hello, Q_sup, Q_how, Q_news, Q_hi_all}
DbQueries == {Q_news}

LLMAnswers ==
    { [raised |-> TRUE, content |-> <<>>],
      [raised |-> FALSE, content |-> <<"W","E","B">>],
      [raised |-> FALSE, content |-> <<" ","p","d","f","\n">>],
      [raised |-> FALSE, content |-> <<"C","H","A","T">>],
      [raised |-> FALSE, content |-> <<"W","E","B",".">>] }

WebResults ==
    { <<>>,
      <<[title |-> 5, content |-> 500]>>,
      <<[title |-> 0, content |-> 0], [title |-> 3, content |-> 20]>> }

UploadLens == {900}

DbLLMAnswers ==
    { [raised |-> TRUE, content |-> <<>>],
      [raised |-> FALSE, content |-> <<" ","p","d","f","\n">>] }

DbWebResults == { <<[title |-> 5, content |-> 500]>> }

(* ------------------------------------------------------------------ *)
(* Index contents left by earlier uploads                               *)
(* ------------------------------------------------------------------ *)
RECURSIVE IndexOf(_)
IndexOf(us) ==
    IF us = {} THEN {}
    ELSE LET u == CHOOSE x \in us : \A y \in us : x >= y
         IN  CollectionAdd(IndexOf(us \ {u}), ChunkRanges(900), u, "a.pdf")

IndexContents == {IndexOf(us) : us \in SUBSET UserIds}

(* ------------------------------------------------------------------ *)
(* Spec: chat and reset-db requests of the registered users over an     *)
(* index that earlier uploads filled, web search configured; the        *)
(* delete-session and get-history requests are in SpecSession           *)
(* ------------------------------------------------------------------ *)
Init ==
    /\ env \in {e \in Envs : e.tavily}
    /\ users = UserIds
    /\ sessions = {}
    /\ messages = <<>>
    /\ chunks \in (IF env.collection THEN IndexContents ELSE {{}})
    /\ chat = IdleChat
    /\ reset = IdleReset
    /\ upload = NoUpload
    /\ reply = NoReply

Next ==
    \/ \E u \in UserIds, sid \in SessionIds, q \in DbQueries :
          ChatLookup(u, sid, q, TRUE)
    \/ ChatCreateSession
    \/ ChatSaveUser
    \/ \E llm \in DbLLMAnswers : AgentIntent(llm)
    \/ \E raised \in BOOLEAN, docs \in SUBSET chunks : AgentPdf(raised, docs)
    \/ \E raised \in BOOLEAN, results \in DbWebResults : AgentWeb(raised, results)
    \/ \E raised \in BOOLEAN : AgentComplete(raised)
    \/ ChatSaveModel
    \/ \E u \in UserIds, db_ok \in BOOLEAN : ResetDbSessions(u, db_ok)
    \/ \E idx_ok \in BOOLEAN : ResetDbMemory(idx_ok)

Spec == Init /\ [][Next]_vars

(* ------------------------------------------------------------------ *)
(* SpecIndex: uploads, chat queries and reset-db of several users       *)
(* interleaved, from the empty index, on the default SQLite store       *)
(* ------------------------------------------------------------------ *)
InitIndex ==
    /\ env \in {e \in Envs : e.tavily /\ ~e.fk_enforced}
    /\ users = UserIds
    /\ sessions = {}
    /\ messages = <<>>
    /\ chunks = {}
    /\ chat = IdleChat
    /\ reset = IdleReset
    /\ upload = NoUpload
    /\ reply = NoReply

NextIndex ==
    \/ \E u \in UserIds, f \in Filenames, len \in UploadLens, failed \in BOOLEAN :
          UploadPdf(u, f, len, FALSE, failed)
    \/ \E u \in UserIds, q \in DbQueries : ChatLookup(u, 1, q, TRUE)
    \/ ChatCreateSession
    \/ ChatSaveUser
    \/ \E llm \in DbLLMAnswers : AgentIntent(llm)
    \/ \E raised \in BOOLEAN, docs \in SUBSET chunks : AgentPdf(raised, docs)
    \/ \E raised \in BOOLEAN, results \in DbWebResults : AgentWeb(raised, results)
    \/ \E raised \in BOOLEAN : AgentComplete(raised)
    \/ ChatSaveModel
    \/ \E u \in UserIds : ResetDbSessions(u, TRUE)
    \/ \E idx_ok \in BOOLEAN : ResetDbMemory(idx_ok)

SpecIndex == InitIndex /\ [][NextIndex]_vars

(* ------------------------------------------------------------------ *)
(* SpecAgent: one call of run_agent, from chat_endpoint, over every     *)
(* query, flag, configuration and index content                         *)
(* ------------------------------------------------------------------ *)
InitAgent ==
    /\ env \in Envs
    /\ users = UserIds
    /\ chunks \in (IF env.collection THEN IndexContents ELSE {{}})
    /\ \E u \in UserIds, q \in Queries, w \in BOOLEAN :
          /\ sessions = {[id |-> 1, user_id |-> u]}
          /\ messages = <<ChatMessage(1, "user", q)>>
          /\ chat = [IdleChat EXCEPT !.pc = "intent", !.user = u, !.sid = 1,
                                     !.query = q, !.use_web = w,
                                     !.created = TRUE, !.saved_user = 1]
    /\ reset = IdleReset
    /\ upload = NoUpload
    /\ reply = NoReply

NextAgent ==
    \/ \E llm \in LLMAnswers \cup {NoLLM} : AgentIntent(llm)
    \/ \E raised \in BOOLEAN, docs \in SUBSET chunks : AgentPdf(raised, docs)
    \/ \E raised \in BOOLEAN, results \in WebResults : AgentWeb(raised, results)
    \/ \E raised \in BOOLEAN : AgentComplete(raised)

SpecAgent == InitAgent /\ [][NextAgent]_vars

(* ------------------------------------------------------------------ *)
(* SpecIngest: one upload of a text of every length up to MaxTextLen    *)
(* ------------------------------------------------------------------ *)
TextLens == {0} \cup 2..MaxTextLen

NextIngest ==
    /\ upload = NoUpload
    /\ \E u \in UserIds, f \in Filenames, len \in TextLens,
          blank \in BOOLEAN, failed \in BOOLEAN :
             UploadPdf(u, f, len, blank, failed)

InitIngest ==
    /\ env \in Envs
    /\ users = UserIds
    /\ sessions = {}
    /\ messages = <<>>
    /\ chunks = {}
    /\ chat = IdleChat
    /\ reset = IdleReset
    /\ upload = NoUpload
    /\ reply = NoReply

SpecIngest == InitIngest /\ [][NextIngest]_vars

(* ------------------------------------------------------------------ *)
(* SpecSession: chat, get-history and delete-session requests of the    *)
(* registered users interleaved at every step, on either store, the     *)
(* document index not configured                                         *)
(* ------------------------------------------------------------------ *)
InitSession ==
    /\ env \in {e \in Envs : e.tavily /\ ~e.collection}
    /\ users = UserIds
    /\ sessions = {}
    /\ messages = <<>>
    /\ chunks = {}
    /\ chat = IdleChat
    /\ reset = IdleReset
    /\ upload = NoUpload
    /\ reply = NoReply

NextSession ==
    \/ \E u \in UserIds, sid \in SessionIds, q \in DbQueries :
          ChatLookup(u, sid, q, TRUE)
    \/ ChatCreateSession
    \/ ChatSaveUser
    \/ \E llm \in DbLLMAnswers : AgentIntent(llm)
    \/ \E raised \in BOOLEAN, docs \in SUBSET chunks : AgentPdf(raised, docs)
    \/ \E raised \in BOOLEAN, results \in DbWebResults : AgentWeb(raised, results)
    \/ \E raised \in BOOLEAN : AgentComplete(raised)
    \/ ChatSaveModel
    \/ \E u \in UserIds, sid \in SessionIds : GetHistory(u, sid)
    \/ \E u \in UserIds, sid \in SessionIds : DeleteSession(u, sid)

SpecSession == InitSession /\ [][NextSession]_vars
(* ================================================================== *)
(* Properties                                                           *)
(* ================================================================== *)
Ceil(a, b) == (a + b - 1) \div b

(* C1: for every query whose lower-cased, trimmed text is one of hi,      *)
(* hello, hey, sup, how are you, run_agent queries neither the document   *)
(* index nor the web-search provider, and a successful completion is       *)
(* labelled "General Knowledge".                                           *)
C1_GreetingSkipsRetrieval ==
    Strip(Lower(chat.query)) \in IntentGreetings =>
        /\ chat.calls.pdf = 0
        /\ chat.calls.web = 0
        /\ chat.complete_call = "ok" => chat.source_type = "General Knowledge"

(* C2: once the document-index search of a query has returned at least    *)
(* one non-empty document text, the web-search provider is not called      *)
(* during that query, whatever the intent and use_web.                     *)
C2_DocsExcludeWeb ==
    (chat.pdf_call = "ok" /\ \E c \in chat.pdf_data.docs : c.hi > c.lo) =>
        /\ chat.calls.web = 0
        /\ chat.web_call = "none"
        /\ chat.pc # "web"

C2_Witness ==
    /\ chat.pc = "save_model"
    /\ chat.pdf_data.docs # {}
    /\ chat.use_web
    /\ chat.intent = PDF
    /\ env.tavily

(* C3 as stated: an ingested text of length L yields                      *)
(* ceil((L-1000)/800)+1 chunks when L>1000, 1 when 0<L<=1000, 0 when L=0   *)
(* (taken for uploads that were processed: index available, text not       *)
(* blank, nothing raised).                                                 *)
SpecChunkCount(L) ==
    IF L > 1000 THEN Ceil(L - 1000, 800) + 1 ELSE IF L > 0 THEN 1 ELSE 0

Processed == upload.user # 0 /\ env.collection /\ ~upload.failed /\ ~upload.blank

C3_SpecFormula == Processed => upload.ret = SpecChunkCount(upload.len)

(* C3 amended: a processed text of length L yields ceil(L/800) chunks,     *)
(* one per offset 0, 800, 1600, ... below L, the one at offset i covering  *)
(* [i, min(i+1000, L)), all of them stored and counted in the answer; a    *)
(* blank text, a missing index or an exception yields 0 and stores         *)
(* nothing; 2400 characters yield [0,1000), [800,1800), [1600,2400).       *)
C3_ChunkCount ==
    upload.user # 0 =>
        /\ Cardinality(chunks) = upload.ret
        /\ {[lo |-> c.lo, hi |-> c.hi] : c \in chunks} = upload.added
        /\ Cardinality(upload.added) = upload.ret
        /\ Processed =>
              /\ upload.ret = Ceil(upload.len, 800)
              /\ upload.added =
                    {[lo |-> 800 * k,
                      hi |-> IF 800 * k + 1000 < upload.len
                             THEN 800 * k + 1000 ELSE upload.len] :
                        k \in 0..(upload.ret - 1)}
        /\ ~Processed => upload.ret = 0
        /\ (Processed /\ upload.len = 2400) =>
              upload.added = {[lo |-> 0, hi |-> 1000], [lo |-> 800, hi |-> 1800],
                              [lo |-> 1600, hi |-> 2400]}

C3_Witness ==
    /\ Processed
    /\ upload.len = 1000
    /\ upload.ret = 2
    /\ upload.added = {[lo |-> 0, hi |-> 1000], [lo |-> 800, hi |-> 1000]}

(* C4: the document context run_agent obtains for a query of user U holds  *)
(* only chunks that U ingested, under every interleaving of uploads,       *)
(* resets and queries of several users.                                    *)
C4_OnlyOwnChunks ==
    \A c \in chat.pdf_data.docs \cup chat.context_data.docs : c.by = chat.user

C4_Witness ==
    /\ chat.pc = "complete"
    /\ chat.context_data.docs # {}
    /\ \E c \in chunks : c.by # chat.user

(* C5: whenever sessions are deleted, by delete-session or by reset-db, no *)
(* stored message refers to a deleted session once the deletion is done.   *)
C5_DeleteCascades ==
    [][\A s \in sessions \ sessions' :
          \A i \in 1..Len(messages') : messages'[i].session_id # s.id]_vars

(* C6: a reset-db of user U both of whose effects complete removes every   *)
(* chunk of the index, those of other users included, and removes U's      *)
(* sessions; it leaves the sessions and messages of the other users and    *)
(* the user records as they were.                                          *)
OfOthers(msgs, sess, u) ==
    SelectSeq(msgs, LAMBDA m : \E s \in sess : s.id = m.session_id /\ s.user_id # u)

C6_ResetEffects ==
    [][ /\ (reset.pc # "memory" /\ reset'.pc = "memory") =>
              /\ \A s \in sessions' : s.user_id # reset'.user
              /\ {s \in sessions' : s.user_id # reset'.user}
                    = {s \in sessions : s.user_id # reset'.user}
              /\ OfOthers(messages', sessions, reset'.user)
                    = OfOthers(messages, sessions, reset'.user)
              /\ users' = users
        /\ (reset.pc = "memory" /\ reset'.pc = "done" /\ reset'.memory # "failed") =>
              /\ reset'.status = "success"
              /\ chunks' = {}
              /\ sessions' = sessions
              /\ messages' = messages
              /\ users' = users ]_vars

C6_Witness ==
    /\ reset.pc = "done"
    /\ reset.status = "success"
    /\ reset.memory = "cleared"
    /\ reset.deleted > 0
    /\ \E u \in reset.removed : u # reset.user
    /\ chunks = {}
    /\ \E s \in sessions : s.user_id # reset.user /\ RefersTo(messages, {s.id})

(* C7: the two effects of reset-db are not undone together: a failed index *)
(* clear leaves the committed session deletion in effect, and a failed     *)
(* session deletion ends the request with the index as it was.             *)
C7_NoJointRollback ==
    [][ /\ (reset.pc = "memory" /\ reset'.pc = "done" /\ reset'.memory = "failed") =>
              /\ sessions' = sessions
              /\ messages' = messages
              /\ chunks' = chunks
        /\ (reset' # reset /\ reset'.status = "error") =>
              /\ reset'.pc = "done"
              /\ reset'.memory = "none"
              /\ chunks' = chunks
              /\ sessions' = sessions ]_vars

C7_Witness ==
    /\ reset.pc = "done"
    /\ reset.memory = "failed"
    /\ reset.deleted > 0
    /\ chunks # {}
    /\ \A s \in sessions : s.user_id # reset.user

(* C8: for a query that is not a greeting of run_agent and whose           *)
(* completion succeeds, the label is "Uploaded Document" when (intent PDF, *)
(* or CHAT with the index available) and the index search returned text;   *)
(* else "Web Search" when use_web, intent WEB or PDF and the web search    *)
(* returned text; else "General Knowledge" with empty context. A search    *)
(* that raises counts as empty and the flow goes on to the next step.      *)
DocHit(c) == PdfCond(c) /\ TextLen(c.pdf_data) > 0

WebHit(c) == c.use_web /\ c.intent \in {WEB, PDF} /\ TextLen(c.web_data) > 0

C8_LabelByFirstMatch ==
    /\ chat.pdf_call = "raised" => chat.pdf_data = EmptyText
    /\ chat.web_call = "raised" => chat.web_data = EmptyText
    /\ (chat.pc \in {"complete", "save_model"} /\ ~IsGreeting(chat.query)) =>
          /\ PdfCond(chat) => chat.pdf_call # "none"
          /\ (~DocHit(chat) /\ chat.use_web /\ chat.intent \in {WEB, PDF}) =>
                chat.web_call # "none"
    /\ (chat.pc = "save_model" /\ chat.complete_call = "ok"
          /\ ~IsGreeting(chat.query)) =>
          IF DocHit(chat)
          THEN chat.source_type = "Uploaded Document"
               /\ chat.context_data = chat.pdf_data
          ELSE IF WebHit(chat)
          THEN chat.source_type = "Web Search"
               /\ chat.context_data = chat.web_data
          ELSE chat.source_type = "General Knowledge"
               /\ chat.context_data = EmptyText

C8_Witness ==
    /\ chat.pc = "save_model"
    /\ chat.complete_call = "ok"
    /\ chat.intent = PDF
    /\ chat.pdf_call = "raised"
    /\ chat.web_call = "ok"
    /\ chat.source_type = "Web Search"

(* C9: a completion call that raises makes run_agent return the error      *)
(* message with the label "Error" instead of raising, and nothing is       *)
(* repeated: within one query the classification, the index search, the    *)
(* web search and the completion are each issued at most once.             *)
C9_NoRetry ==
    /\ chat.calls.intent <= 1
    /\ chat.calls.pdf <= 1
    /\ chat.calls.web <= 1
    /\ chat.calls.complete <= 1
    /\ chat.complete_call = "raised" =>
          /\ chat.pc = "save_model"
          /\ chat.response_text = AgentErrorText
          /\ chat.source_type = "Error"

C9_Witness ==
    /\ chat.pc = "save_model"
    /\ chat.complete_call = "raised"
    /\ chat.calls = [intent |-> 1, pdf |-> 1, web |-> 1, complete |-> 1]

(* C10: determine_intent returns WEB, PDF or CHAT: an answer that trimmed   *)
(* and upper-cased is neither WEB nor PDF gives CHAT, a failed request      *)
(* gives CHAT, and run_agent then still does its retrieval and generation.  *)
C10_IntentFailsOpen ==
    chat.pc \in {"pdf", "web", "complete", "save_model"} =>
        /\ chat.intent \in {WEB, PDF, CHAT}
        /\ chat.intent_call = "ok" =>
              chat.intent = IF Upper(Strip(chat.intent_raw)) = WEB THEN WEB
                            ELSE IF Upper(Strip(chat.intent_raw)) = PDF THEN PDF
                            ELSE CHAT
        /\ chat.intent_call = "raised" =>
              /\ chat.intent = CHAT
              /\ chat.response_text # EngineErrorText
              /\ chat.pc = "save_model" =>
                    /\ chat.calls.complete = 1
                    /\ env.collection => chat.calls.pdf = 1

C10_Witness ==
    /\ chat.pc = "save_model"
    /\ chat.intent_call = "raised"
    /\ chat.calls.pdf = 1
    /\ chat.complete_call = "ok"
    /\ chat.source_type = "Uploaded Document"

(* C11: every session has exactly one owner, a registered user, after any  *)
(* sequence of requests. A chat request whose session id belongs to a       *)
(* different user is not taken for that session at the lookup, ends at the  *)
(* creation step while that user still owns the id, and adds no message     *)
(* and changes no session; no chat step removes or re-owns a session. A     *)
(* get-history or delete-session on a session the caller does not own is    *)
(* answered 404 with nothing returned and nothing changed, and a session    *)
(* is removed only by its owner's delete-session, which leaves the sessions *)
(* and messages of the other users as they were.                            *)
Owners(sid) == {s.user_id : s \in {t \in sessions : t.id = sid}}

MsgsOf(msgs, sid) == SelectSeq(msgs, LAMBDA m : m.session_id = sid)

OneOwner(sess) ==
    /\ \A s1 \in sess : \A s2 \in sess : s1.id = s2.id => s1 = s2
    /\ \A s \in sess : s.user_id \in users

C12_ReplyHasSession ==
    \A i \in 1..Len(messages) :
        messages[i].role = "model" => SessionExists(messages[i].session_id)

(* C13: every chat request that passes the session lookup or creation      *)
(* step stores exactly one message with role user holding the query,       *)
(* before the engine is called, and then exactly one message with role     *)
(* model holding the returned text, the error message when generation      *)
(* failed; the session is created, with the caller as owner, only when the *)
(* lookup found no session with that id owned by the caller.               *)
C13_StoresQueryThenReply ==
    [][ /\ (chat.pc \in {"idle", "done"} /\ chat'.pc = "create") =>
              chat'.user \notin Owners(chat'.sid)
        /\ (chat.pc = "create" /\ chat'.pc = "save_user") =>
              /\ sessions' = sessions \cup {[id |-> chat.sid, user_id |-> chat.user]}
              /\ messages' = messages
        /\ (chat.pc = "save_user" /\ chat' # chat) =>
              /\ messages' =
                    Append(messages, ChatMessage(chat.sid, "user", chat.query))
              /\ chat.calls = NoCalls
              /\ chat'.pc = "intent"
              /\ chat'.saved_user = 1 /\ chat'.saved_model = 0
        /\ (chat.pc \in {"intent", "pdf", "web", "complete"} /\ chat' # chat) =>
              /\ messages' = messages
              /\ chat'.saved_user = 1 /\ chat'.saved_model = 0
        /\ (chat.pc = "save_model" /\ chat' # chat) =>
              /\ messages' =
                    Append(messages,
                           ChatMessage(chat.sid, "model", chat.response_text))
              /\ chat.complete_call = "raised" =>
                    chat.response_text = AgentErrorText
              /\ chat'.pc = "done"
              /\ chat'.saved_user = 1 /\ chat'.saved_model = 1 ]_vars
====
